---------------------------- MODULE Spec2Model ----------------------------
(***************************************************************************)
(* Tic-tac-toe with move history (src/src/App.tsx).                        *)
(*                                                                         *)
(* The state is the five useState cells of the Game component, the queue   *)
(* of makeTurn continuations suspended at their `await`, and the text of   *)
(* the error dialog shown by the latest step.  One action per handler:     *)
(* makeTurn (up to its await), the continuation of makeTurn after the      *)
(* await, goToMove and startNewGame.  React applies the set* calls of one  *)
(* handler together, so a handler is one atomic step whose result is the   *)
(* last value given to each setter.                                        *)
(***************************************************************************)
EXTENDS Integers, Sequences, FiniteSets, TLC

VARIABLES
    status,     \* useState<GameStatus>            (line 139)
    moves,      \* useState<MoveHistoryEntry[]>    (line 140)
    cells,      \* useState<Cell[]>                (line 141)
    moveId,     \* useState<number>                (line 142)
    gameOver,   \* useState<boolean>               (line 143)
    pending,    \* makeTurn calls suspended at line 205, oldest first:
                \* the updatedStatus each one captured
    alert,      \* text of the GameError dialog shown by the latest step (line
                \* 210), or NoAlert
    wcCells,    \* argument of a checkWinCondition call (SpecWin)
    wcResult    \* its result, or NotCalled (SpecWin)

session == <<status, moves, cells, moveId, gameOver>>
vars == <<status, moves, cells, moveId, gameOver, pending, alert, wcCells, wcResult>>

-----------------------------------------------------------------------------
(* Bounds *)

\* The click intents enumerated on a board: every occupied cell, and the
\* MaxFree lowest-numbered empty cells.
MaxFree == 2

\* At most MaxPending makeTurn calls are suspended at their await at a time:
\* a click that would suspend one more is enumerated only below that.
MaxPending == 1

-----------------------------------------------------------------------------
(* Values *)

\* JavaScript null / undefined.
Null == "null"

\* JavaScript truthiness of a CellValue, a label or a GameStatus | null:
\* null, undefined and the empty string are falsy.
Truthy(v) == v # Null /\ v # ""

NoAlert == "none"
NotCalled == "not called"

BoardSize == 9

\* _GAME_ERRORS
GameErrors(kind) ==
    CASE kind = "CELL_ALREADY_HAS_VALUE" -> "This cell already has value"
      [] kind = "GAME_IS_OVER_CANNOT_MAKE_THE_MOVE" ->
             "The Game is already over. You cannot make the move"

GameStatus == {"X turn", "O turn", "X won", "O won", "Stalemate"}

\* createCells(): Array(9).fill(undefined).map((_, i) => ({id: i + 1, value: null}))
createCells == [i \in 1..BoardSize |-> [id |-> i, value |-> Null]]

-----------------------------------------------------------------------------
(* checkWinCondition *)

winConditions ==
    << <<1, 2, 3>>, <<4, 5, 6>>, <<7, 8, 9>>,
       <<1, 4, 7>>, <<2, 5, 8>>, <<3, 6, 9>>,
       <<1, 5, 9>>, <<3, 5, 7>> >>

\* cells.find(c => c.id === id)!.value : the first cell with that id
RECURSIVE findFrom(_, _, _)
findFrom(cs, id, i) ==
    IF cs[i].id = id THEN cs[i] ELSE findFrom(cs, id, i + 1)

cellValue(cs, id) == findFrom(cs, id, 1).value

\* A faulty scan: a line of three equal cells ends it even when the cells
\* are empty.
RECURSIVE scanFromStopsAtEmptyLine(_, _)
scanFromStopsAtEmptyLine(cs, k) ==
    IF k > Len(winConditions) THEN Null
    ELSE LET slice == winConditions[k]
             v0 == cellValue(cs, slice[1])
             v1 == cellValue(cs, slice[2])
         IN  IF v0 = v1 /\ v1 = cellValue(cs, slice[3])
             THEN IF v0 = "O" THEN "O won"
                  ELSE IF v0 = "X" THEN "X won"
                  ELSE Null
             ELSE scanFromStopsAtEmptyLine(cs, k + 1)

\* The for loop of lines 71-82, from the k-th win condition on.
RECURSIVE scanFrom(_, _)
scanFrom(cs, k) ==
    IF k > Len(winConditions) THEN Null
    ELSE LET slice == winConditions[k]
             v0 == cellValue(cs, slice[1])
             v1 == cellValue(cs, slice[2])
         IN  IF v0 = v1 /\ v1 = cellValue(cs, slice[3])
             THEN IF v0 = "O" THEN "O won"
                  ELSE IF v0 = "X" THEN "X won"
                  ELSE scanFrom(cs, k + 1)
             ELSE scanFrom(cs, k + 1)

checkWinConditionStopsAtEmptyLine(cs) == scanFromStopsAtEmptyLine(cs, 1)

checkWinCondition(cs) == scanFrom(cs, 1)

-----------------------------------------------------------------------------
(* createMove *)

\* A faulty createMove: the sequence numbers are one-based.
createMoveOneBased(id, cs, st, label) ==
    LET updatedLabel ==
            IF Truthy(label) THEN label
            ELSE IF id = 0 THEN "Go to game start"
            ELSE "Go to move #" \o ToString(id)
    IN  [id |-> id + 1, cells |-> cs, status |-> st, label |-> updatedLabel]

createMove(id, cs, st, label) ==
    LET updatedLabel ==
            IF Truthy(label) THEN label
            ELSE IF id = 0 THEN "Go to game start"
            ELSE "Go to move #" \o ToString(id)
    IN  [id |-> id, cells |-> cs, status |-> st, label |-> updatedLabel]

-----------------------------------------------------------------------------
(* Initial state: the useState initialisers of Game *)

\* lines 139-143
InitialSession ==
    [status |-> "X turn",
     moves |-> << createMove(0, createCells, "X turn", Null) >>,
     cells |-> createCells,
     moveId |-> 0,
     gameOver |-> FALSE]

Init ==
    /\ status = InitialSession.status
    /\ moves = InitialSession.moves
    /\ cells = InitialSession.cells
    /\ moveId = InitialSession.moveId
    /\ gameOver = InitialSession.gameOver
    /\ pending = << >>
    /\ alert = NoAlert
    /\ wcCells = createCells
    /\ wcResult = NotCalled

-----------------------------------------------------------------------------
(* makeTurn, lines 159-213 *)

\* value: status === 'X turn' ? 'X' : 'O'
markOf(st) == IF st = "X turn" THEN "X" ELSE "O"

\* A faulty test: the value of the clicked cell is never looked at.
mapThrowsNever(cs, cell) == FALSE

\* The callback of cells.map throws when the clicked cell has a value.
mapThrows(cs, cell) ==
    \E i \in 1..Len(cs) : cs[i].id = cell.id /\ Truthy(cs[i].value)

\* cells.map(...) when it does not throw (lines 165-177)
updatedCellsOf(cs, cell, st) ==
    [i \in 1..Len(cs) |->
        IF cs[i].id = cell.id THEN [cs[i] EXCEPT !.value = markOf(st)]
                              ELSE cs[i]]

\* A faulty line 180: the turn is not handed over.
statusAfterNoToggle(won, st) ==
    IF Truthy(won) THEN won ELSE "O turn"

\* line 180
statusAfter(won, st) ==
    IF Truthy(won) THEN won
    ELSE IF st = "X turn" THEN "O turn" ELSE "X turn"

LastMoveId == 9

\* lines 188-191: the local gameOver after the stalemate test
gameOverAfter(won, updatedMoveId) ==
    IF updatedMoveId = LastMoveId /\ ~Truthy(won) THEN "Stalemate" ELSE won

\* A faulty stalemate test: the ninth move is a draw whatever the board.
updatedStatusOfDrawFirst(won, st, updatedMoveId) ==
    IF updatedMoveId = LastMoveId THEN "Stalemate" ELSE statusAfter(won, st)

\* A faulty stalemate test: off by one, the eighth move is already a draw.
updatedStatusOfDrawEarly(won, st, updatedMoveId) ==
    IF updatedMoveId = LastMoveId - 1 /\ ~Truthy(won) THEN "Stalemate"
    ELSE statusAfter(won, st)

\* lines 180 and 188-191: the final updatedStatus
updatedStatusOf(won, st, updatedMoveId) ==
    IF updatedMoveId = LastMoveId /\ ~Truthy(won) THEN "Stalemate"
    ELSE statusAfter(won, st)

\* A faulty line 193: the label is chosen as if before the stalemate test, so
\* a draw gets no game-over label.
labelOfBeforeStalemateTest(over, updatedStatus) ==
    IF Truthy(over) /\ over # "Stalemate"
    THEN "Go to game over: " \o updatedStatus ELSE Null

\* line 193
labelOf(over, updatedStatus) ==
    IF Truthy(over) THEN "Go to game over: " \o updatedStatus ELSE Null

\* Array.prototype.slice(0, end) for end >= 0
slice(s, end) == SubSeq(s, 1, IF end < Len(s) THEN end ELSE Len(s))

\* A faulty lines 196-199: the new entry is appended to the whole log.
updatedMovesOfNoTruncate(ms, updatedMoveId, entry) == Append(ms, entry)

\* lines 196-199
updatedMovesOf(ms, updatedMoveId, entry) ==
    Append(slice(ms, updatedMoveId), entry)

\* The session as one value: what a handler reads and what it sets.
Session ==
    [status |-> status, moves |-> moves, cells |-> cells,
     moveId |-> moveId, gameOver |-> gameOver]

\* A faulty makeTurn: the move index is set before the throw.
caughtAfterSetMoveId(s, kind) ==
    [session |-> [s EXCEPT !.moveId = s.moveId + 1], thrown |-> kind, awaits |-> Null]

\* The catch block (lines 208-212): the GameError is shown; the throw came
\* before the first set* call, so the session is as it was.
caught(s, kind) ==
    [session |-> s, thrown |-> kind, awaits |-> Null]

\* A faulty line 194: the flag is set from the result of checkWinCondition,
\* before the stalemate test.
committedWithFlagFromWin(s, updatedCells, won, updatedMoveId) ==
    LET over == gameOverAfter(won, updatedMoveId)
        updatedStatus == updatedStatusOf(won, s.status, updatedMoveId)
    IN  [session |->
            [status |-> updatedStatus,
             moves |-> updatedMovesOf(s.moves, updatedMoveId,
                           createMove(updatedMoveId, updatedCells, updatedStatus,
                                      labelOf(over, updatedStatus))),
             cells |-> updatedCells,
             moveId |-> updatedMoveId,
             gameOver |-> Truthy(won)],
         thrown |-> Null,
         awaits |-> IF Truthy(over) THEN updatedStatus ELSE Null]

\* Lines 179-204 with updatedCells and the result of checkWinCondition in hand.
committedWith(s, updatedCells, won, updatedMoveId) ==
    LET over == gameOverAfter(won, updatedMoveId)
        updatedStatus == updatedStatusOf(won, s.status, updatedMoveId)
    IN  [session |->
            [status |-> updatedStatus,
             moves |-> updatedMovesOf(s.moves, updatedMoveId,
                           createMove(updatedMoveId, updatedCells, updatedStatus,
                                      labelOf(over, updatedStatus))),
             cells |-> updatedCells,
             moveId |-> updatedMoveId,
             gameOver |-> Truthy(over)],
         thrown |-> Null,
         awaits |-> IF Truthy(over) THEN updatedStatus ELSE Null]

\* Lines 165-204, once the game-over throw did not happen.
committedCells(s, updatedCells) ==
    committedWith(s, updatedCells, checkWinCondition(updatedCells), s.moveId + 1)

\* A faulty makeTurn: the clicked cell is tested before the status.
makeTurnOnCellTestedFirst(s, cell) ==
    IF mapThrows(s.cells, cell)
    THEN caught(s, "CELL_ALREADY_HAS_VALUE")
    ELSE IF s.status = "X won" \/ s.status = "O won"
    THEN caught(s, "GAME_IS_OVER_CANNOT_MAKE_THE_MOVE")
    ELSE committedCells(s, updatedCellsOf(s.cells, cell, s.status))

\* A faulty makeTurn: the status is not tested, play goes on after a win.
makeTurnOnNoGameOverTest(s, cell) ==
    IF mapThrows(s.cells, cell)
    THEN caught(s, "CELL_ALREADY_HAS_VALUE")
    ELSE committedCells(s, updatedCellsOf(s.cells, cell, s.status))

\* The body of makeTurn up to its await: the session it leaves, the GameError
\* kind it caught (or Null), the status it will announce after the await (or
\* Null when it returns without awaiting).
makeTurnOn(s, cell) ==
    IF s.status = "X won" \/ s.status = "O won"
    THEN caught(s, "GAME_IS_OVER_CANNOT_MAKE_THE_MOVE")
    ELSE IF mapThrows(s.cells, cell)
    THEN caught(s, "CELL_ALREADY_HAS_VALUE")
    ELSE committedCells(s, updatedCellsOf(s.cells, cell, s.status))

\* A handler's set* calls take effect together.
Render(s) ==
    /\ status' = s.status
    /\ moves' = s.moves
    /\ cells' = s.cells
    /\ moveId' = s.moveId
    /\ gameOver' = s.gameOver

makeTurn(cell) ==
    \E r \in {makeTurnOn(Session, cell)} :
        /\ Render(r.session)
        /\ alert' = IF r.thrown # Null THEN GameErrors(r.thrown) ELSE NoAlert
        /\ pending' = IF r.awaits # Null THEN Append(pending, r.awaits) ELSE pending

\* Lines 205-206 after the await: the oldest suspended call shows its dialog.
gameOverAlert ==
    /\ pending # << >>
    /\ alert' = NoAlert
    /\ pending' = Tail(pending)
    /\ UNCHANGED session

-----------------------------------------------------------------------------
(* goToMove and startNewGame *)

\* A faulty goToMove: setStatus is not called.
goToMoveOnKeepsStatus(s, move) ==
    [s EXCEPT !.moveId = move.id, !.cells = move.cells]

\* A faulty goToMove: the entries after the selected one are dropped.
goToMoveOnTruncates(s, move) ==
    [s EXCEPT !.moveId = move.id, !.status = move.status, !.cells = move.cells,
              !.moves = slice(s.moves, move.id + 1)]

\* A faulty goToMove: the status is read from the entry at the move index
\* the handler was rendered with, not from the selected entry.
goToMoveOnStaleStatus(s, move) ==
    [s EXCEPT !.moveId = move.id, !.status = s.moves[s.moveId + 1].status,
              !.cells = move.cells]

\* A goToMove that also calls setGameOver, from the selected entry's status.
goToMoveOnSetsFlag(s, move) ==
    [s EXCEPT !.moveId = move.id, !.status = move.status, !.cells = move.cells,
              !.gameOver = move.status \in {"X won", "O won", "Stalemate"}]

\* lines 145-149
goToMoveOn(s, move) ==
    [s EXCEPT !.moveId = move.id, !.status = move.status, !.cells = move.cells]

goToMove(move) ==
    /\ Render(goToMoveOn(Session, move))
    /\ alert' = NoAlert
    /\ UNCHANGED pending

\* A faulty startNewGame: setGameOver(false) is not called.
startNewGameOnKeepsFlag(s) ==
    [status |-> "X turn",
     moves |-> << createMove(0, createCells, "X turn", Null) >>,
     cells |-> createCells,
     moveId |-> 0,
     gameOver |-> s.gameOver]

\* lines 151-157
startNewGameOn(s) ==
    [status |-> "X turn",
     moves |-> << createMove(0, createCells, "X turn", Null) >>,
     cells |-> createCells,
     moveId |-> 0,
     gameOver |-> FALSE]

startNewGame ==
    /\ Render(startNewGameOn(Session))
    /\ alert' = NoAlert
    /\ UNCHANGED pending

-----------------------------------------------------------------------------
(* The intents the rendered page can emit *)

\* Board renders one Cell per element of cells; a click passes that element.
ClickTargets ==
    {i \in 1..Len(cells) :
        \/ Truthy(cells[i].value)
        \/ Cardinality({j \in 1..(i - 1) : ~Truthy(cells[j].value)}) < MaxFree}

\* Whether makeTurn(cell) would reach its await (line 205).
suspends(cell) == makeTurnOn(Session, cell).awaits # Null

CellClicked ==
    \E i \in ClickTargets :
        /\ Len(pending) < MaxPending \/ ~suspends(cells[i])
        /\ makeTurn(cells[i])

\* MovesHistory renders one button per element of moves.
MoveClicked == \E i \in 1..Len(moves) : goToMove(moves[i])

\* The new-game button is rendered only while gameOver is true (line 231).
NewGameClicked == gameOver /\ startNewGame

Next ==
    \/ CellClicked /\ UNCHANGED <<wcCells, wcResult>>
    \/ MoveClicked /\ UNCHANGED <<wcCells, wcResult>>
    \/ NewGameClicked /\ UNCHANGED <<wcCells, wcResult>>
    \/ gameOverAlert /\ UNCHANGED <<wcCells, wcResult>>

Spec == Init /\ [][Next]_vars

-----------------------------------------------------------------------------
(* checkWinCondition on its own: every board over {null, X, O} *)

AllBoards ==
    {[i \in 1..BoardSize |-> [id |-> i, value |-> f[i]]] :
        f \in [1..BoardSize -> {Null, "X", "O"}]}

InitWin ==
    /\ status = InitialSession.status
    /\ moves = InitialSession.moves
    /\ cells = InitialSession.cells
    /\ moveId = InitialSession.moveId
    /\ gameOver = InitialSession.gameOver
    /\ pending = << >>
    /\ alert = NoAlert
    /\ wcCells \in AllBoards
    /\ wcResult = NotCalled

CallCheckWin ==
    /\ wcResult = NotCalled
    /\ wcResult' = checkWinCondition(wcCells)
    /\ UNCHANGED <<session, pending, alert, wcCells>>

NextWin == CallCheckWin

SpecWin == InitWin /\ [][NextWin]_vars

-----------------------------------------------------------------------------
(* Vocabulary of the properties *)

Cells == 1..BoardSize
Won == {"X won", "O won"}
Turn == {"X turn", "O turn"}
Terminal == {"X won", "O won", "Stalemate"}

CellOccupiedMsg == GameErrors("CELL_ALREADY_HAS_VALUE")
GameIsOverMsg == GameErrors("GAME_IS_OVER_CANNOT_MAKE_THE_MOVE")

\* What makeTurn does when the i-th rendered cell is clicked now.
Clicked(i) == makeTurnOn(Session, cells[i])

\* What goToMove does when the i-th rendered history button is clicked now.
Selected(i) == goToMoveOn(Session, moves[i])

\* The value of the cell of board cs whose identifier is id.
valueAt(cs, id) == (CHOOSE c \in {cs[i] : i \in 1..Len(cs)} : c.id = id).value

nonEmpty(cs) == Cardinality({i \in 1..Len(cs) : cs[i].value # Null})

\* The eight lines as sets, and whether mark m fills one of them on cs.
Lines ==
    {{1, 2, 3}, {4, 5, 6}, {7, 8, 9}, {1, 4, 7}, {2, 5, 8}, {3, 6, 9},
     {1, 5, 9}, {3, 5, 7}}

hasLine(cs, m) == \E l \in Lines : \A id \in l : valueAt(cs, id) = m

\* makeTurn on the cells with the given identifiers, one after the other.
RECURSIVE play(_, _)
play(s, ids) ==
    IF ids = << >> THEN s
    ELSE play(makeTurnOn(s, [id |-> Head(ids), value |-> valueAt(s.cells, Head(ids))]).session,
              Tail(ids))

-----------------------------------------------------------------------------
(* C1 *)

\* C1: in every reachable state the current board and the current status are
\* the board and the status stored in the history entry at position moveId.
C1_CurrentIsHistoryEntry ==
    /\ moveId + 1 \in 1..Len(moves)
    /\ cells = moves[moveId + 1].cells
    /\ status = moves[moveId + 1].status

\* An earlier entry was selected and later entries are still in the log.
C1_Witness ==
    /\ moveId >= 2
    /\ Len(moves) >= moveId + 3
    /\ cells = moves[moveId + 1].cells
    /\ moves[Len(moves)].status \in Terminal

-----------------------------------------------------------------------------
(* C2 *)

\* C2: in every reachable state, a makeTurn call that raises a GameError
\* (either kind), on any cell, leaves the board, the status, the move index,
\* the history list and the terminal flag exactly as they were.
C2_RejectedMoveChangesNothing ==
    \A i \in Cells :
        \E r \in {Clicked(i)} :
            r.thrown # Null =>
                /\ r.session.cells = cells
                /\ r.session.status = status
                /\ r.session.moveId = moveId
                /\ r.session.moves = moves
                /\ r.session.gameOver = gameOver

\* Cell 1 was clicked a second time: the dialog is up and the board has its
\* single mark.
C2_Witness ==
    /\ alert = CellOccupiedMsg
    /\ moveId = 1
    /\ cells[1].value = "X"
    /\ nonEmpty(cells) = 1

-----------------------------------------------------------------------------
(* C3 *)

\* C3: when the current status is Stalemate, a makeTurn call on any cell is
\* rejected with GAME_IS_OVER_CANNOT_MAKE_THE_MOVE, as for a win.
C3_StalemateRejectsWithGameOver ==
    status = "Stalemate" =>
        \A i \in Cells : Clicked(i).thrown = "GAME_IS_OVER_CANNOT_MAKE_THE_MOVE"

-----------------------------------------------------------------------------
(* C4 *)

\* C4: the preconditions of a move are checked in order.  With status X won
\* or O won a makeTurn call on any cell, empty or not, is rejected with the
\* game-over error; otherwise, on a player's turn, a call on a non-empty cell
\* is rejected with the cell-occupied error; and a call on an empty cell on a
\* player's turn is accepted: it raises no error, places the mover's mark
\* and advances the move index.
C4_PreconditionsInOrder ==
    \A i \in Cells :
        \E r \in {Clicked(i)} :
            /\ status \in Won => r.thrown = "GAME_IS_OVER_CANNOT_MAKE_THE_MOVE"
            /\ status \in Turn /\ cells[i].value # Null
                  => r.thrown = "CELL_ALREADY_HAS_VALUE"
            /\ status \in Turn /\ cells[i].value = Null
                  => /\ r.thrown = Null
                     /\ r.session.cells[i].value = markOf(status)
                     /\ r.session.moveId = moveId + 1

\* After a win a cell was clicked while empty cells remain: the dialog shown
\* is the game-over one.
C4_Witness ==
    /\ status \in Won
    /\ alert = GameIsOverMsg
    /\ nonEmpty(cells) < BoardSize

-----------------------------------------------------------------------------
(* C5 *)

\* C5: an accepted makeTurn made from move index k replaces the history by
\* its entries 0..k, unchanged, followed by exactly one new entry with
\* sequence number k+1: the log then has k+2 entries, every entry recorded
\* beyond k is gone, and the move index is k+1 (so a further accepted move,
\* made from k+1, yields k+2).
C5_TruncateThenAppend ==
    \A i \in Cells :
        \E r \in {Clicked(i)} :
            r.thrown = Null =>
                /\ Len(r.session.moves) = moveId + 2
                /\ SubSeq(r.session.moves, 1, moveId + 1) = SubSeq(moves, 1, moveId + 1)
                /\ r.session.moves[moveId + 2].id = moveId + 1
                /\ r.session.moveId = moveId + 1

\* A finished game's dialog is still waiting while the log holds only the
\* start and one move: the finished game's entries were discarded by a move
\* made from entry 0.
C5_Witness ==
    /\ pending # << >>
    /\ Len(moves) = 2
    /\ moveId = 1
    /\ ~gameOver

-----------------------------------------------------------------------------
(* C6 *)

\* C6: goToMove on any entry present in the log sets the current board,
\* status and move index to that entry's board, status and sequence number
\* and leaves the history list as it was, later entries included; selecting
\* entry 0 restores the all-empty board and status X turn.
C6_SelectRestoresEntryKeepsLog ==
    \A i \in 1..Len(moves) :
        \E s \in {Selected(i)} :
            /\ s.cells = moves[i].cells
            /\ s.status = moves[i].status
            /\ s.moveId = moves[i].id
            /\ s.moves = moves
            /\ i = 1 => /\ \A c \in Cells : valueAt(s.cells, c) = Null
                        /\ s.status = "X turn"
                        /\ s.moveId = 0

\* Entry 0 was selected after several moves: the board is empty again and
\* the later entries are still listed.
C6_Witness ==
    /\ moveId = 0
    /\ Len(moves) >= 4
    /\ nonEmpty(cells) = 0
    /\ status = "X turn"
    /\ nonEmpty(moves[4].cells) = 3

-----------------------------------------------------------------------------
(* C7 *)

\* C7: in every reachable state, after history selection and branching too,
\* the current board has exactly moveId non-empty cells and 9 - moveId empty
\* ones, and every history entry with sequence number i holds a board with
\* exactly i non-empty cells.
C7_MarksCountMoves ==
    /\ nonEmpty(cells) = moveId
    /\ Cardinality({i \in 1..Len(cells) : cells[i].value = Null}) = BoardSize - moveId
    /\ \A k \in 1..Len(moves) : nonEmpty(moves[k].cells) = moves[k].id

\* A move was made from a selected earlier entry of a longer game, and then
\* an entry of the new branch was selected.
C7_Witness ==
    /\ pending # << >>
    /\ moveId = 3
    /\ Len(moves) = 6
    /\ moves[Len(moves)].status \in Turn

-----------------------------------------------------------------------------
(* C8 *)

\* C8: an accepted move made in status X turn places X and, unless the result
\* is terminal, yields O turn; an accepted move made in O turn places O and,
\* unless terminal, yields X turn.  So every non-terminal history entry with
\* sequence number i has status X turn when i is even, O turn when i is odd.
C8_TurnsAlternate ==
    /\ \A i \in Cells :
          \E r \in {Clicked(i)} :
              r.thrown = Null =>
                  /\ status = "X turn" =>
                        /\ r.session.cells[i].value = "X"
                        /\ r.session.status \notin Terminal
                              => r.session.status = "O turn"
                  /\ status = "O turn" =>
                        /\ r.session.cells[i].value = "O"
                        /\ r.session.status \notin Terminal
                              => r.session.status = "X turn"
    /\ \A k \in 1..Len(moves) :
          moves[k].status \notin Terminal =>
              moves[k].status = IF moves[k].id % 2 = 0 THEN "X turn" ELSE "O turn"

\* Eight moves without a winner: entry 8 says X turn, entry 7 says O turn.
C8_Witness ==
    /\ moveId = 8
    /\ Len(moves) = 9
    /\ status = "X turn"
    /\ moves[8].status = "O turn"

-----------------------------------------------------------------------------
(* C9 *)

\* The order of the lines C9 states: rows, columns, diagonals.
StatedOrder ==
    << <<1, 2, 3>>, <<4, 5, 6>>, <<7, 8, 9>>,
       <<1, 4, 7>>, <<2, 5, 8>>, <<3, 6, 9>>,
       <<1, 5, 9>>, <<3, 5, 7>> >>

\* The positions in StatedOrder of the lines of cs whose three cells are
\* equal and non-empty.
completeLines(cs) ==
    {k \in 1..Len(StatedOrder) :
        /\ valueAt(cs, StatedOrder[k][1]) # Null
        /\ valueAt(cs, StatedOrder[k][1]) = valueAt(cs, StatedOrder[k][2])
        /\ valueAt(cs, StatedOrder[k][1]) = valueAt(cs, StatedOrder[k][3])}

firstCompleteOwner(cs) ==
    LET ks == completeLines(cs)
        k == CHOOSE x \in ks : \A y \in ks : x <= y
    IN  valueAt(cs, StatedOrder[k][1])

\* C9: for every board over {empty, X, O}, checkWinCondition returns the win
\* status of the owner of the first line, in the order rows, columns,
\* diagonals, whose three cells are equal and non-empty, and null when there
\* is no such line: a line of three empty cells is no win and does not stop
\* the scan.
C9_FirstCompleteLineWins ==
    wcResult # NotCalled =>
        wcResult = IF completeLines(wcCells) = {} THEN Null
                   ELSE IF firstCompleteOwner(wcCells) = "X" THEN "X won"
                   ELSE "O won"

\* The first row is empty, the second is O's, the third is X's: the scan went
\* past the empty row and reported the earlier of the two complete lines.
C9_Witness ==
    /\ wcResult = "O won"
    /\ \A c \in {1, 2, 3} : valueAt(wcCells, c) = Null
    /\ \A c \in {4, 5, 6} : valueAt(wcCells, c) = "O"
    /\ \A c \in {7, 8, 9} : valueAt(wcCells, c) = "X"

-----------------------------------------------------------------------------
(* C10 *)

\* The session after clicks on cells 1, 2, 4, 3, 7 of a new game.
ScenarioColumnWin == play(InitialSession, <<1, 2, 4, 3, 7>>)

\* C10: after an accepted move, if the new board holds a complete line of the
\* mover's mark then the new status is that player's win, on the 9th move
\* too (a win on the last cell is a win, not a draw); in every reachable
\* state the status is X won (O won) exactly when the current board holds a
\* complete X (O) line; and the moves 1, 2, 4, 3, 7 end in X won with a
\* history of 6 entries.
C10_CompleteLineIsWin ==
    /\ \A i \in Cells :
          \E r \in {Clicked(i)} :
              r.thrown = Null /\ hasLine(r.session.cells, markOf(status))
                  => r.session.status = markOf(status) \o " won"
    /\ status = "X won" <=> hasLine(cells, "X")
    /\ status = "O won" <=> hasLine(cells, "O")
    /\ ScenarioColumnWin.status = "X won"
    /\ Len(ScenarioColumnWin.moves) = 6

\* The ninth move completed a line: the status is a win and the log is full.
C10_Witness ==
    /\ moveId = 9
    /\ Len(moves) = 10
    /\ status \in Won
    /\ hasLine(cells, "X")

-----------------------------------------------------------------------------
(* C11 *)

\* C11: the status is Stalemate exactly in the states where the move index
\* is 9, all nine cells are filled and no line is complete; and no state with
\* fewer than 9 moves has status Stalemate, neither as the current status nor
\* in any history entry.
C11_StalemateOnlyOnFullBoard ==
    /\ status = "Stalemate" <=>
          /\ moveId = 9
          /\ nonEmpty(cells) = BoardSize
          /\ ~hasLine(cells, "X")
          /\ ~hasLine(cells, "O")
    /\ moveId < 9 => status # "Stalemate"
    /\ \A k \in 1..Len(moves) :
          moves[k].status = "Stalemate" =>
              /\ moves[k].id = 9
              /\ nonEmpty(moves[k].cells) = BoardSize

\* A drawn game whose dialog has been shown.
C11_Witness ==
    /\ status = "Stalemate"
    /\ moveId = 9
    /\ gameOver
    /\ pending = << >>

-----------------------------------------------------------------------------
(* C12 *)

\* C12: in every reachable state the entry at list position i (from 0) has
\* sequence number i, entry 0 is the all-empty board with status X turn, the
\* move index is at least 0 and at most the length of the log minus 1, and
\* the log never holds more than 10 entries (the move index never exceeds 9).
C12_DenseLogWithinBounds ==
    /\ \A k \in 1..Len(moves) : moves[k].id = k - 1
    /\ Len(moves) >= 1
    /\ \A c \in Cells : valueAt(moves[1].cells, c) = Null
    /\ moves[1].status = "X turn"
    /\ 0 <= moveId /\ moveId <= Len(moves) - 1
    /\ Len(moves) <= 10
    /\ moveId <= 9

\* The start of a nine-move game was selected: ten entries, move index 0.
C12_Witness ==
    /\ Len(moves) = 10
    /\ moveId = 0
    /\ moves[10].id = 9

-----------------------------------------------------------------------------
(* C13 *)

\* C13: startNewGame, from any reachable state, yields exactly the initial
\* session: nine empty cells, status X turn, move index 0, a history of one
\* entry (sequence number 0, empty board, X turn) and terminal flag false.
C13_NewGameIsInitialSession ==
    \E s \in {startNewGameOn(Session)} :
        /\ Len(s.cells) = BoardSize
        /\ \A c \in Cells : valueAt(s.cells, c) = Null
        /\ s.status = "X turn"
        /\ s.moveId = 0
        /\ Len(s.moves) = 1
        /\ s.moves[1].id = 0
        /\ s.moves[1].status = "X turn"
        /\ \A c \in Cells : valueAt(s.moves[1].cells, c) = Null
        /\ s.gameOver = FALSE
        /\ s = InitialSession

\* A game ended and the new-game button was clicked before the game-over
\* dialog came up: the session is the initial one again.
C13_Witness ==
    /\ pending # << >>
    /\ Len(moves) = 1
    /\ moveId = 0
    /\ ~gameOver
    /\ status = "X turn"

-----------------------------------------------------------------------------
(* C14 *)

\* The labels of moves 1 to 9 as the page shows them.
MoveLabels ==
    << "Go to move #1", "Go to move #2", "Go to move #3", "Go to move #4",
       "Go to move #5", "Go to move #6", "Go to move #7", "Go to move #8",
       "Go to move #9" >>

GameOverLabels ==
    {"Go to game over: X won", "Go to game over: O won",
     "Go to game over: Stalemate"}

\* C14: in every reachable log, entry 0 is labelled as the game start; an
\* entry with sequence number i >= 1 and a non-terminal status is labelled
\* "Go to move #i"; an entry whose status is terminal (X won, O won or
\* Stalemate) is labelled "Go to game over: " followed by its own status; and
\* no non-terminal entry carries a game-over label.
C14_LabelPolicy ==
    \A k \in 1..Len(moves) :
        /\ moves[k].id = 0 => moves[k].label = "Go to game start"
        /\ moves[k].id >= 1 /\ moves[k].status \notin Terminal
              => moves[k].label = MoveLabels[moves[k].id]
        /\ moves[k].status = "X won" => moves[k].label = "Go to game over: X won"
        /\ moves[k].status = "O won" => moves[k].label = "Go to game over: O won"
        /\ moves[k].status = "Stalemate"
              => moves[k].label = "Go to game over: Stalemate"
        /\ moves[k].status \notin Terminal => moves[k].label \notin GameOverLabels

\* A drawn game, with an earlier entry selected: the last entry carries the
\* draw label, the eighth the label of move 8.
C14_Witness ==
    /\ Len(moves) = 10
    /\ moveId = 5
    /\ moves[10].label = "Go to game over: Stalemate"
    /\ moves[9].label = "Go to move #8"

-----------------------------------------------------------------------------
(* C15 *)

\* C15: selection is idempotent: goToMove with the same sequence number
\* twice in a row leaves the same board, status, move index and history as
\* goToMove with it once.
C15_SelectIdempotent ==
    \A i \in 1..Len(moves) :
        \E once \in {Selected(i)} :
            /\ i \in 1..Len(once.moves)
            /\ once.moves[i].id = moves[i].id
            /\ goToMoveOn(once, once.moves[i]) = once

\* Entry 1 of a game of at least four moves is selected.
C15_Witness ==
    /\ moveId = 1
    /\ Len(moves) >= 5
    /\ status = "O turn"
    /\ alert = NoAlert
    /\ pending = << >>

-----------------------------------------------------------------------------
(* C16 *)

\* The current board and every board of the log.
Boards == {cells} \cup {moves[k].cells : k \in 1..Len(moves)}

\* C16: in no reachable state does a board, the current one or a history
\* snapshot, hold a complete line of X and a complete line of O together; so
\* the order in which checkWinCondition tests the lines never decides which
\* player it reports: it reports X exactly on the boards with an X line and
\* O exactly on those with an O line.
C16_NeverTwoWinners ==
    \A b \in Boards :
        /\ ~(hasLine(b, "X") /\ hasLine(b, "O"))
        /\ checkWinCondition(b) = "X won" <=> hasLine(b, "X")
        /\ checkWinCondition(b) = "O won" <=> hasLine(b, "O")

\* O completed a line on the eighth move, with seven cells in play before.
C16_Witness ==
    /\ status = "O won"
    /\ moveId = 8
    /\ Len(moves) = 9
    /\ hasLine(cells, "O")

-----------------------------------------------------------------------------
(* C17 *)

\* C17 as stated: in every reachable state gameOver is true exactly when the
\* current status is terminal, also after goToMove.  It fails: goToMove does
\* not call setGameOver, so after a finished game an earlier entry is
\* selected with the flag still true.
C17_FlagIffCurrentTerminal == gameOver <=> status \in Terminal

\* C17, amended: gameOver is true whenever the current status is terminal,
\* and exactly then while the current entry is the last of the log; goToMove
\* leaves the flag as it was, whichever entry it selects, so with an earlier
\* entry of a finished game selected the flag is true and the status is a
\* player's turn.
C17_FlagFollowsLogNotSelection ==
    /\ status \in Terminal => gameOver
    /\ moveId + 1 = Len(moves) => (gameOver <=> status \in Terminal)
    /\ \A i \in 1..Len(moves) : Selected(i).gameOver = gameOver
    /\ \A i \in 1..Len(moves) :
          gameOver /\ i < Len(moves)
              => Selected(i).gameOver /\ Selected(i).status \notin Terminal

\* A won game with an earlier entry selected.
C17_Witness ==
    /\ gameOver
    /\ status = "O turn"
    /\ moveId + 1 < Len(moves)
    /\ moves[Len(moves)].status = "O won"

-----------------------------------------------------------------------------
(* C18 *)

\* C18 as stated, in its second half: while a game-over dialog is due, the
\* current status is the outcome the dialog will name.  (The first half, that
\* the dialog step sets nothing of the session, is the UNCHANGED of
\* gameOverAlert.)  It fails: between the commit and the dialog goToMove and
\* startNewGame can run, and they set the status.
C18_AlertNamesCurrentStatus ==
    pending # << >> => status = Head(pending)

-----------------------------------------------------------------------------
(* C19 *)

\* C19: in every reachable state only the last entry of the log can have a
\* terminal status: every entry before the last has a player's turn as its
\* status, so no entry was recorded after a terminal one.
C19_TerminalEntryIsLast ==
    \A k \in 1..Len(moves) :
        moves[k].status \in Terminal => k = Len(moves)

\* A log that ends with a win, the entry just before it selected.
C19_Witness ==
    /\ Len(moves) = 9
    /\ moves[9].status = "O won"
    /\ moves[8].status = "O turn"
    /\ moveId = 7

-----------------------------------------------------------------------------
(* C20 *)

\* C20: in every reachable state gameOver is true exactly when the last entry
\* of the log has a terminal status; hence whenever the current status is
\* terminal the flag is true, and the new-game button is rendered.
C20_FlagIffLastEntryTerminal ==
    /\ gameOver <=> moves[Len(moves)].status \in Terminal
    /\ status \in Terminal => gameOver /\ ENABLED NewGameClicked

\* A drawn game with the game start selected: the button is still there.
C20_Witness ==
    /\ gameOver
    /\ moves[Len(moves)].status = "Stalemate"
    /\ moveId = 0
    /\ status = "X turn"

=============================================================================
